---- MODULE Spec2Model ----
(***************************************************************************)
(* A model of the simple_test_case procedural macros: the identifier       *)
(* sanitizers (util.rs, test_case.rs), the test_case expansion             *)
(* (test_case.rs) and the dir_cases expansion (dir_cases.rs).              *)
(*                                                                         *)
(* Text is modelled as a sequence of characters, a character being a       *)
(* one-element string; "U+00E9" stands for a non-ASCII letter.             *)
(***************************************************************************)
EXTENDS Integers, Sequences, FiniteSets, TLC

VARIABLES
    name,        \* SpecSlug: the text handed to the sanitizers
    slug,        \* SpecSlug: slugify_path(name), or NotRun
    reslug,      \* SpecSlug: slugify_path(slug), or NotRun
    resolved,    \* SpecSlug: resolve_test_case of a case called name, or NotResolved
    original,    \* the annotated ItemFn handed to the macro
    args,        \* the tokens of the macro's arguments
    output,      \* the TokenStream the macro returns
    fs,          \* SpecDirCases: the directories and their entries
    reads,       \* SpecDirCases: the get_cases calls made, with their results
    expanded     \* SpecDirCases: test_case applied to the case declarations
                 \* dir_cases emitted, or NoOutput

vars == <<name, slug, reslug, resolved, original, args, output, fs, reads, expanded>>

(***************************************************************************)
(* Bounds of the model.                                                    *)
(***************************************************************************)
MaxNameLen == 3

MaxAttrs == 3

MaxParams == 2

MaxEntries == 3

MaxDirParams == 3

MaxTokens == 5

(***************************************************************************)
(* Characters.                                                             *)
(***************************************************************************)
UpperSeq == <<"A","B","C","D","E","F","G","H","I","J","K","L","M",
              "N","O","P","Q","R","S","T","U","V","W","X","Y","Z">>

LowerSeq == <<"a","b","c","d","e","f","g","h","i","j","k","l","m",
              "n","o","p","q","r","s","t","u","v","w","x","y","z">>

AsciiDigits == {"0","1","2","3","4","5","6","7","8","9"}

AsciiUpper == {UpperSeq[i] : i \in DOMAIN UpperSeq}

AsciiLower == {LowerSeq[i] : i \in DOMAIN LowerSeq}

NonAsciiLetters == {"U+00E9"}

\* char::is_ascii_alphanumeric
is_ascii_alphanumeric(c) == c \in AsciiUpper \cup AsciiLower \cup AsciiDigits

\* char::is_numeric: of the characters of the model only the ASCII digits
\* are in a Unicode numeric category
is_numeric(c) == c \in AsciiDigits

\* char::to_ascii_lowercase: ASCII upper case letters are mapped, every other
\* character is left alone
char_to_ascii_lowercase(c) ==
    IF c \in AsciiUpper
    THEN LowerSeq[CHOOSE i \in DOMAIN UpperSeq : UpperSeq[i] = c]
    ELSE c

\* str::to_ascii_lowercase
to_ascii_lowercase(s) == [i \in DOMAIN s |-> char_to_ascii_lowercase(s[i])]

\* str::replace(from, to) for a one character pattern
replace(s, from, to) == [i \in DOMAIN s |-> IF s[i] = from THEN to ELSE s[i]]

(***************************************************************************)
(* util.rs: slugify_path                                                   *)
(***************************************************************************)
\* mutant: the leading digit guard is left out
slugify_path_no_guard(p) ==
    LET lower == to_ascii_lowercase(p)
    IN  [i \in DOMAIN lower |->
            IF is_ascii_alphanumeric(lower[i]) THEN lower[i] ELSE "_"]

slugify_path(p) ==
    LET lower == to_ascii_lowercase(p)
        s == [i \in DOMAIN lower |->
                IF is_ascii_alphanumeric(lower[i]) THEN lower[i] ELSE "_"]
    IN  IF s # <<>> /\ is_numeric(s[1]) THEN <<"_">> \o s ELSE s

(***************************************************************************)
(* test_case.rs: slugify_ident                                             *)
(***************************************************************************)
\* proc_macro2::Ident::new accepts exactly the identifiers of the language
\* (a letter or '_' followed by letters, digits and '_') and panics on any
\* other text; the panic aborts the expansion.
is_ident_start(c) == c \in AsciiUpper \cup AsciiLower \cup NonAsciiLetters \cup {"_"}

is_ident_continue(c) == is_ident_start(c) \/ c \in AsciiDigits

is_ident(s) ==
    /\ s # <<>>
    /\ is_ident_start(s[1])
    /\ \A i \in DOMAIN s : is_ident_continue(s[i])

IdentNew(s) ==
    IF is_ident(s) THEN [st |-> "ok", id |-> s] ELSE [st |-> "panic", id |-> <<>>]

\* mutant: the spaces of the name are kept
slugify_ident_keep_spaces(n) == IdentNew(to_ascii_lowercase(n))

slugify_ident(n) == IdentNew(replace(to_ascii_lowercase(n), " ", "_"))

(***************************************************************************)
(* test_case.rs: the case declaration and its parser.                      *)
(* A token is a literal expression, a string literal, ',' or ';'; v is     *)
(* the text of a literal.                                                  *)
(***************************************************************************)
Lit(v) == [t |-> "lit", v |-> v]

Str(v) == [t |-> "str", v |-> v]

Comma == [t |-> ",", v |-> <<>>]

Semi == [t |-> ";", v |-> <<>>]

\* Expr::parse: a literal of either kind is an expression
ExprTokens == {"lit", "str"}

\* struct TestCase, and the failure of its parser
TestCase(a, n, sp) == [ok |-> TRUE, args |-> a, name |-> n, span |-> sp]

ParseErr(sp) == [ok |-> FALSE, args |-> <<>>, name |-> <<>>, span |-> sp]

\* Punctuated::parse_separated_nonempty(_with), after its first value: while
\* a ',' follows, take it and the value that must come after it
RECURSIVE parse_separated_rest(_, _, _, _)
parse_separated_rest(toks, i, acc, values) ==
    IF i <= Len(toks) /\ toks[i] = Comma
    THEN IF i + 1 <= Len(toks) /\ toks[i + 1].t \in values
         THEN parse_separated_rest(toks, i + 2, Append(acc, toks[i + 1]), values)
         ELSE [ok |-> FALSE, args |-> <<>>, next |-> i + 1]
    ELSE [ok |-> TRUE, args |-> acc, next |-> i]

\* mutant: no value at all is accepted too
parse_separated_maybe_empty(toks, values) ==
    IF toks # <<>> /\ toks[1].t \in values
    THEN parse_separated_rest(toks, 2, <<toks[1]>>, values)
    ELSE [ok |-> TRUE, args |-> <<>>, next |-> 1]

\* values: the kinds of token the parser of a value accepts
parse_separated_nonempty(toks, values) ==
    IF toks # <<>> /\ toks[1].t \in values
    THEN parse_separated_rest(toks, 2, <<toks[1]>>, values)
    ELSE [ok |-> FALSE, args |-> <<>>, next |-> 1]

\* <TestCase as Parse>::parse run to the end of the tokens, as
\* parse_macro_input! and Attribute::parse_args run it: the arguments, ';',
\* the name, and nothing after it
TestCaseParse(toks, sp) ==
    LET a == parse_separated_nonempty(toks, ExprTokens)
        i == a.next
    IN  IF ~a.ok THEN ParseErr(sp)
        ELSE IF ~(i <= Len(toks) /\ toks[i] = Semi) THEN ParseErr(sp)
        ELSE IF ~(i + 1 <= Len(toks) /\ toks[i + 1].t = "str") THEN ParseErr(sp)
        ELSE IF i + 1 # Len(toks) THEN ParseErr(sp)
        ELSE TestCase(a.args, toks[i + 1].v, sp)

(***************************************************************************)
(* test_case.rs: the items the expansion generates.                        *)
(***************************************************************************)
NoSpan == <<"", 0>>

\* a function that was generated for a case
FnItem(id, attrs, inputs, stmts) ==
    [kind |-> "fn", ident |-> id, attrs |-> attrs, inputs |-> inputs,
     stmts |-> stmts, msg |-> "", span |-> NoSpan]

\* Error::new(span, msg).into_compile_error()
ErrorItem(msg, sp) ==
    [kind |-> "error", ident |-> <<>>, attrs |-> <<>>, inputs |-> <<>>,
     stmts |-> <<>>, msg |-> msg, span |-> sp]

\* the expansion was aborted by a panic
PanicItem ==
    [kind |-> "panic", ident |-> <<>>, attrs |-> <<>>, inputs |-> <<>>,
     stmts |-> <<>>, msg |-> "", span |-> NoSpan]

NotResolved ==
    [kind |-> "none", ident |-> <<>>, attrs |-> <<>>, inputs |-> <<>>,
     stmts |-> <<>>, msg |-> "", span |-> NoSpan]

\* let #pat: #ty = #val;
LetStmt(pat, ty, val) == [kind |-> "let", pat |-> pat, ty |-> ty, val |-> val]

\* a statement of the body as written
BodyStmt(text) == [kind |-> "expr", pat |-> "", ty |-> "", val |-> Lit(text)]

Min(a, b) == IF a <= b THEN a ELSE b

\* Iterator::zip: as long as the shorter side
zip(xs, ys) == [i \in 1..Min(Len(xs), Len(ys)) |-> <<xs[i], ys[i]>>]

\* mutant: the attributes of a parameter are not looked at
bind_arg_attrs_unchecked(fnarg, val, i) ==
    IF fnarg.kind = "typed"
    THEN [ok |-> TRUE,
          stmt |-> LetStmt(fnarg.pat, fnarg.ty, val),
          err |-> ErrorItem("", NoSpan)]
    ELSE [ok |-> FALSE,
          stmt |-> LetStmt("", "", val),
          err |-> ErrorItem("self is not permitted for test cases", <<"fnarg", i>>)]

\* the closure of resolve_test_case: one parameter and its value
bind_arg(fnarg, val, i) ==
    IF fnarg.kind = "typed"
    THEN IF fnarg.attrs # <<>>
         THEN [ok |-> FALSE,
               stmt |-> LetStmt("", "", val),
               err |-> ErrorItem("attributes on function arguments are not supported",
                                 <<"fnarg", i>>)]
         ELSE [ok |-> TRUE,
               stmt |-> LetStmt(fnarg.pat, fnarg.ty, val),
               err |-> ErrorItem("", NoSpan)]
    ELSE [ok |-> FALSE,
          stmt |-> LetStmt("", "", val),
          err |-> ErrorItem("self is not permitted for test cases", <<"fnarg", i>>)]

\* collect::<Result<Vec<Stmt>>>(): the statements, or the first error
RECURSIVE collect_stmts(_, _, _)
collect_stmts(pairs, i, acc) ==
    IF i > Len(pairs)
    THEN [ok |-> TRUE, stmts |-> acc, err |-> ErrorItem("", NoSpan)]
    ELSE LET b == bind_arg(pairs[i][1], pairs[i][2], i)
         IN  IF b.ok
             THEN collect_stmts(pairs, i + 1, Append(acc, b.stmt))
             ELSE [ok |-> FALSE, stmts |-> <<>>, err |-> b.err]

\* mutant: only a case with too few arguments is refused
arity_mismatch_fewer_only(case_args, inputs) == Len(case_args) < Len(inputs)

\* args.len() != inputs.len()
arity_mismatch(case_args, inputs) == Len(case_args) # Len(inputs)

\* mutant: the bindings are put after the body
with_bindings_last(stmts, as_written) == as_written \o stmts

\* stmts.extend(as_written)
with_bindings(stmts, as_written) == stmts \o as_written

resolve_test_case(fn, case) ==
    IF arity_mismatch(case.args, fn.inputs)
    THEN ErrorItem("wrong number of arguments", case.span)
    ELSE LET res == collect_stmts(zip(fn.inputs, case.args), 1, <<>>)
         IN  IF res.ok
             THEN LET id == slugify_ident(case.name)
                  IN  IF id.st = "ok"
                      THEN FnItem(id.id, fn.attrs, <<>>,
                                  with_bindings(res.stmts, fn.stmts))
                      ELSE PanicItem
             ELSE res.err

(***************************************************************************)
(* test_case.rs: extract_other_cases and the expansion, inner.             *)
(***************************************************************************)
Attr(path, toks) == [path |-> path, tokens |-> toks]

\* mutant: the qualified spelling is not recognised
is_test_case_attr_short_only(a) == a.path = "test_case"

\* a.path == test_case_attr || a.path == qualified_test_case_attr
is_test_case_attr(a) ==
    a.path = "test_case" \/ a.path = "simple_test_case::test_case"

\* mutant: a case is put in front of the cases collected so far
push_case_front(cases, tc) == <<tc>> \o cases

\* cases.push(test_case)
push_case(cases, tc) == Append(cases, tc)

\* the iterator of extract_other_cases from attribute ix on: the cases are
\* pushed and the indices collected until an attribute does not parse
RECURSIVE extract_from(_, _, _, _)
extract_from(attrs, ix, cases, indices) ==
    IF ix > Len(attrs)
    THEN [ok |-> TRUE, cases |-> cases, indices |-> indices,
          err |-> ErrorItem("", NoSpan)]
    ELSE IF ~is_test_case_attr(attrs[ix])
    THEN extract_from(attrs, ix + 1, cases, indices)
    ELSE LET tc == TestCaseParse(attrs[ix].tokens, <<"case", ix>>)
         IN  IF tc.ok
             THEN extract_from(attrs, ix + 1, push_case(cases, tc),
                               Append(indices, ix))
             ELSE [ok |-> FALSE, cases |-> cases, indices |-> <<>>,
                   err |-> ErrorItem("invalid test_case", <<"attr", ix>>)]

\* mutant: an attribute that does not parse is passed over
RECURSIVE extract_skipping(_, _, _, _)
extract_skipping(attrs, ix, cases, indices) ==
    IF ix > Len(attrs)
    THEN [ok |-> TRUE, cases |-> cases, indices |-> indices,
          err |-> ErrorItem("", NoSpan)]
    ELSE IF ~is_test_case_attr(attrs[ix])
    THEN extract_skipping(attrs, ix + 1, cases, indices)
    ELSE LET tc == TestCaseParse(attrs[ix].tokens, <<"case", ix>>)
         IN  IF tc.ok
             THEN extract_skipping(attrs, ix + 1, push_case(cases, tc),
                                   Append(indices, ix))
             ELSE extract_skipping(attrs, ix + 1, cases, Append(indices, ix))

extract_other_cases_skipping(cases, attrs) == extract_skipping(attrs, 1, cases, <<>>)

extract_other_cases(cases, attrs) == extract_from(attrs, 1, cases, <<>>)

\* Vec::swap_remove: the element at i is replaced by the last one
swap_remove(v, i) ==
    [k \in 1..(Len(v) - 1) |-> IF k = i THEN v[Len(v)] ELSE v[k]]

\* for i in to_remove.into_iter().rev() { original.attrs.swap_remove(i); }
RECURSIVE remove_attrs(_, _)
remove_attrs(attrs, to_remove) ==
    IF to_remove = <<>>
    THEN attrs
    ELSE remove_attrs(swap_remove(attrs, to_remove[Len(to_remove)]),
                      SubSeq(to_remove, 1, Len(to_remove) - 1))

\* what the macro hands back
ErrorOut(e) ==
    [kind |-> "error", ident |-> <<>>, items |-> <<>>, msg |-> e.msg, span |-> e.span]

ModuleOut(id, items) ==
    [kind |-> "module", ident |-> id, items |-> items, msg |-> "", span |-> NoSpan]

PanicOut ==
    [kind |-> "panic", ident |-> <<>>, items |-> <<>>, msg |-> "", span |-> NoSpan]

NoOutput ==
    [kind |-> "none", ident |-> <<>>, items |-> <<>>, msg |-> "", span |-> NoSpan]

\* the cases of a function whose attributes all parse: the primary one, then
\* those of extract_other_cases
all_cases(first_case, attrs) == extract_other_cases(<<first_case>>, attrs)

\* inner(args, input), the test_case macro
inner(toks, fn) ==
    LET first_case == TestCaseParse(toks, <<"case", 0>>)
    IN  IF ~first_case.ok
        THEN ErrorOut(ErrorItem("parse error", <<"case", 0>>))
        ELSE LET ex == all_cases(first_case, fn.attrs)
             IN  IF ~ex.ok
                 THEN ErrorOut(ex.err)
                 ELSE LET stripped == [fn EXCEPT !.attrs = remove_attrs(fn.attrs, ex.indices)]
                          items == [i \in 1..Len(ex.cases) |->
                                      resolve_test_case(stripped, ex.cases[i])]
                      IN  IF \E i \in 1..Len(items) : items[i].kind = "panic"
                          THEN PanicOut
                          ELSE ModuleOut(fn.ident, items)

(***************************************************************************)
(* SpecSlug: the sanitizers applied to every text of at most MaxNameLen    *)
(* characters over NameChars.                                              *)
(***************************************************************************)
NameChars == {"a", "B", "7", " ", "-", "_", "U+00E9"}

Texts(n) == UNION {[1..k -> NameChars] : k \in 0..n}

NotRun == [st |-> "none", id |-> <<>>]

\* a function of one parameter, and the case that gives it the name
ProbeFn ==
    [ident |-> <<"f">>, attrs |-> <<>>,
     inputs |-> <<[kind |-> "typed", attrs |-> <<>>, pat |-> "a", ty |-> "usize"]>>,
     stmts |-> <<BodyStmt(<<"x">>)>>]

ProbeCase(n) == TestCase(<<Lit(<<"1">>)>>, n, <<"case", 0>>)

InitSlug ==
    /\ name \in Texts(MaxNameLen)
    /\ slug = NotRun
    /\ reslug = NotRun
    /\ resolved = NotResolved
    /\ original = ProbeFn
    /\ args = <<>>
    /\ output = NoOutput
    /\ fs = <<>>
    /\ reads = <<>>
    /\ expanded = NoOutput

\* slugify_path(name)
SlugifyPath ==
    /\ slug = NotRun
    /\ slug' = [st |-> "ok", id |-> slugify_path(name)]
    /\ UNCHANGED <<name, reslug, resolved, original, args, output, fs, reads, expanded>>

\* slugify_path applied to its own result
SlugifyPathAgain ==
    /\ slug.st = "ok"
    /\ reslug = NotRun
    /\ reslug' = [st |-> "ok", id |-> slugify_path(slug.id)]
    /\ UNCHANGED <<name, slug, resolved, original, args, output, fs, reads, expanded>>

\* resolve_test_case for a case called name
ResolveNamed ==
    /\ resolved = NotResolved
    /\ resolved' = resolve_test_case(original, ProbeCase(name))
    /\ UNCHANGED <<name, slug, reslug, original, args, output, fs, reads, expanded>>

NextSlug == SlugifyPath \/ SlugifyPathAgain \/ ResolveNamed

SpecSlug == InitSlug /\ [][NextSlug]_vars

(***************************************************************************)
(* SpecTestCase: test_case applied to every annotated function with at     *)
(* most MaxAttrs further attributes and at most MaxParams parameters.      *)
(***************************************************************************)
\* case declarations as written: of one, two and three arguments, and one
\* that does not parse (no "; name")
OneArg(n) == <<Lit(<<"1">>), Semi, Str(n)>>

TwoArgs(n) == <<Lit(<<"1">>), Comma, Lit(<<"2">>), Semi, Str(n)>>

ThreeArgs(n) ==
    <<Lit(<<"1">>), Comma, Lit(<<"2">>), Comma, Str(<<"3">>), Semi, Str(n)>>

NoName == <<Lit(<<"1">>), Comma, Lit(<<"2">>)>>

PrimaryTokens ==
    {OneArg(<<"P", " ", "1">>), TwoArgs(<<"p", "2">>), TwoArgs(<<"p", "-", "2">>),
     ThreeArgs(<<"p", "3">>), NoName}

AttrChoices ==
    {Attr("test_case", OneArg(<<"b">>)),
     Attr("test_case", TwoArgs(<<"c", " ", "D">>)),
     Attr("test_case", NoName),
     Attr("simple_test_case::test_case", TwoArgs(<<"e">>)),
     Attr("test", <<>>),
     Attr("should_panic", <<>>)}

Typed(pat, ty, attrs) == [kind |-> "typed", attrs |-> attrs, pat |-> pat, ty |-> ty]

Receiver == [kind |-> "receiver", attrs |-> <<>>, pat |-> "self", ty |-> "Self"]

ParamChoices ==
    {Typed("a", "usize", <<>>), Typed("b", "bool", <<>>),
     Typed("c", "usize", <<"cfg">>), Receiver}

SeqsUpTo(S, n) == UNION {[1..k -> S] : k \in 0..n}

Body == <<BodyStmt(<<"s", "1">>), BodyStmt(<<"s", "2">>)>>

InitTestCase ==
    /\ original \in {[ident |-> <<"f">>, attrs |-> a, inputs |-> p, stmts |-> Body] :
                        a \in SeqsUpTo(AttrChoices, MaxAttrs),
                        p \in SeqsUpTo(ParamChoices, MaxParams)}
    /\ args \in PrimaryTokens
    /\ output = NoOutput
    /\ name = <<>>
    /\ slug = NotRun
    /\ reslug = NotRun
    /\ resolved = NotResolved
    /\ fs = <<>>
    /\ reads = <<>>
    /\ expanded = NoOutput

\* #[test_case(args)] on original
ExpandTestCase ==
    /\ output = NoOutput
    /\ output' = inner(args, original)
    /\ UNCHANGED <<name, slug, reslug, resolved, original, args, fs, reads, expanded>>

NextTestCase == ExpandTestCase

SpecTestCase == InitTestCase /\ [][NextTestCase]_vars

(***************************************************************************)
(* The case declarations of the annotated function, as the claims state    *)
(* them: the primary one, then the attributes spelled test_case or         *)
(* simple_test_case::test_case from top to bottom.                         *)
(***************************************************************************)
IsCaseDecl(a) == a.path \in {"test_case", "simple_test_case::test_case"}

CaseIxs == {i \in DOMAIN original.attrs : IsCaseDecl(original.attrs[i])}

\* the places of the case declarations among the attributes, ascending
CaseIxSeq ==
    SelectSeq([i \in DOMAIN original.attrs |-> i],
              LAMBDA i : IsCaseDecl(original.attrs[i]))

NumCases == 1 + Len(CaseIxSeq)

\* the declared cases as written, the primary one first
DeclaredCases ==
    LET ixs == CaseIxSeq
    IN  <<TestCaseParse(args, <<"case", 0>>)>>
            \o [k \in DOMAIN ixs |->
                    TestCaseParse(original.attrs[ixs[k]].tokens,
                                  <<"case", ixs[k]>>)]

AllParse == \A k \in DOMAIN DeclaredCases : DeclaredCases[k].ok

Count(seq, x) == Cardinality({i \in DOMAIN seq : seq[i] = x})

PlainParams ==
    \A j \in DOMAIN original.inputs :
        original.inputs[j].kind = "typed" /\ original.inputs[j].attrs = <<>>

ArityDiffers(c) == Len(c.args) # Len(original.inputs)

\* C1: in the emitted module, a case whose number of arguments differs from
\* the number of parameters (more or fewer) has the error "wrong number of
\* arguments" at the span of the case in its place, and no function.
C1_ArityError ==
    output.kind = "module" =>
        LET cs == DeclaredCases
        IN  \A k \in DOMAIN cs :
                ArityDiffers(cs[k]) =>
                    /\ output.items[k].kind = "error"
                    /\ output.items[k].msg = "wrong number of arguments"
                    /\ output.items[k].span = cs[k].span
                    /\ output.items[k].stmts = <<>>

\* C1 witness: a function of two parameters with a case of three arguments
\* and a case of one argument beside a case of two
C1_Witness ==
    /\ output.kind = "module"
    /\ Len(original.inputs) = 2
    /\ PlainParams
    /\ \E k \in DOMAIN DeclaredCases :
        Len(DeclaredCases[k].args) = 3 /\ output.items[k].kind = "error"
    /\ \E k \in DOMAIN DeclaredCases :
        Len(DeclaredCases[k].args) = 1 /\ output.items[k].kind = "error"
    /\ \E k \in DOMAIN DeclaredCases : output.items[k].kind = "fn"

\* C2: for a function of N typed parameters without attributes and a case
\* of N arguments, the generated function has no parameters and its body is
\* N bindings, the i-th of parameter i's pattern and type to argument i,
\* followed by the statements of the original body in their order.
C2_Bindings ==
    output.kind = "module" =>
        LET cs == DeclaredCases
        IN  \A k \in DOMAIN cs :
            (PlainParams /\ ~ArityDiffers(cs[k])) =>
                LET n == Len(original.inputs)
                    item == output.items[k]
                IN  /\ item.kind = "fn"
                    /\ item.inputs = <<>>
                    /\ Len(item.stmts) = n + Len(original.stmts)
                    /\ \A i \in 1..n :
                        item.stmts[i] = [kind |-> "let",
                                         pat |-> original.inputs[i].pat,
                                         ty |-> original.inputs[i].ty,
                                         val |-> cs[k].args[i]]
                    /\ \A i \in 1..Len(original.stmts) :
                        item.stmts[n + i] = original.stmts[i]

\* C2 witness: two different parameters bound by a case of two arguments
C2_Witness ==
    /\ output.kind = "module"
    /\ Len(original.inputs) = 2
    /\ original.inputs[1] # original.inputs[2]
    /\ PlainParams
    /\ \E k \in DOMAIN DeclaredCases :
        ~ArityDiffers(DeclaredCases[k]) /\ Len(output.items[k].stmts) = 4

\* the item is the one of the case c: a function is named and bound after
\* c, an arity error is at the span of c
ItemOfCase(item, c) ==
    /\ item.kind = "fn" =>
        /\ item.ident = replace(to_ascii_lowercase(c.name), " ", "_")
        /\ \A i \in 1..Len(c.args) : item.stmts[i].val = c.args[i]
    /\ (item.kind = "error" /\ item.msg = "wrong number of arguments") =>
        item.span = c.span

\* C3: when the primary case and the k further case declarations parse, the
\* module (when one is emitted) is named after the function and holds
\* exactly k+1 items, the primary case's first and then the others' in the
\* order of their attributes.
C3_OneItemPerCaseInOrder ==
    LET cs == DeclaredCases
    IN  (output.kind # "none" /\ \A k \in DOMAIN cs : cs[k].ok) =>
            /\ output.kind \in {"module", "panic"}
            /\ output.kind = "module" =>
                /\ output.ident = original.ident
                /\ Len(output.items) = Len(cs)
                /\ \A k \in DOMAIN cs : ItemOfCase(output.items[k], cs[k])

\* C3 witness: three case declarations of two arguments, each generating
\* its function
C3_Witness ==
    /\ output.kind = "module"
    /\ NumCases = 3
    /\ Len(output.items) = 3
    /\ \A k \in 1..3 : output.items[k].kind = "fn"
    /\ output.items[2].ident # output.items[3].ident

\* C4: every generated function carries each attribute that is no case
\* declaration as often as the original function does, and no case
\* declaration, wherever the case declarations stand in the list.
C4_AttrsKept ==
    output.kind = "module" =>
        \A k \in 1..Len(output.items) :
            output.items[k].kind = "fn" =>
                /\ \A i \in DOMAIN output.items[k].attrs :
                    ~IsCaseDecl(output.items[k].attrs[i])
                /\ \A i \in DOMAIN original.attrs :
                    ~IsCaseDecl(original.attrs[i]) =>
                        Count(output.items[k].attrs, original.attrs[i])
                            = Count(original.attrs, original.attrs[i])

\* C4 witness: case declarations of both spellings before and between two
\* other attributes
C4_Witness ==
    /\ output.kind = "module"
    /\ Len(original.attrs) = 3
    /\ \E i, j \in CaseIxs : original.attrs[i].path # original.attrs[j].path
    /\ \E i \in DOMAIN original.attrs : ~IsCaseDecl(original.attrs[i])
    /\ \E k \in 1..Len(output.items) :
        output.items[k].kind = "fn" /\ Len(output.items[k].attrs) = 1

\* the attributes that are no case declarations, in their order
RECURSIVE OtherAttrs(_)
OtherAttrs(attrs) ==
    IF attrs = <<>> THEN <<>>
    ELSE IF IsCaseDecl(Head(attrs)) THEN OtherAttrs(Tail(attrs))
    ELSE <<Head(attrs)>> \o OtherAttrs(Tail(attrs))

\* C5: the attributes left on the generated functions are in the order they
\* had on the original function.
C5_AttrOrderKept ==
    output.kind = "module" =>
        \A k \in 1..Len(output.items) :
            output.items[k].kind = "fn" =>
                output.items[k].attrs = OtherAttrs(original.attrs)

\* a case that cannot be resolved: its arity differs, or the function has a
\* receiver or an attribute on a parameter
CaseFails(c) == ArityDiffers(c) \/ ~PlainParams

\* the errors and the generated functions of the output
ErrorsOut ==
    IF output.kind = "error" THEN 1
    ELSE Cardinality({k \in DOMAIN output.items : output.items[k].kind = "error"})

FnsOut == Cardinality({k \in DOMAIN output.items : output.items[k].kind = "fn"})

\* C8 as stated: when the resolution of one of the cases fails, the output
\* is one error and holds no generated function of any other case.
C8_AllOrNothing ==
    (output.kind \in {"module", "error"} /\ AllParse
        /\ \E k \in DOMAIN DeclaredCases : CaseFails(DeclaredCases[k])) =>
            ErrorsOut = 1 /\ FnsOut = 0

\* C8 as amended: resolution errors are per case. The module is emitted
\* all the same, with an error in the place of each case that fails and the
\* generated function in the place of every other case.
C8_ErrorsPerCase ==
    output.kind = "module" =>
        LET cs == DeclaredCases
        IN  \A k \in DOMAIN cs :
                /\ CaseFails(cs[k]) => output.items[k].kind = "error"
                /\ ~CaseFails(cs[k]) => output.items[k].kind = "fn"

\* C8 witness: a module with the error of one case beside the function of
\* another
C8_Witness ==
    /\ output.kind = "module"
    /\ \E k \in DOMAIN DeclaredCases :
        CaseFails(DeclaredCases[k]) /\ output.items[k].kind = "error"
    /\ \E k \in DOMAIN DeclaredCases :
        ~CaseFails(DeclaredCases[k]) /\ output.items[k].kind = "fn"

\* the first attribute that is a case declaration and does not parse
BadCaseIxs ==
    {i \in CaseIxs : ~TestCaseParse(original.attrs[i].tokens, <<"case", i>>).ok}

FirstBadCaseIx ==
    LET bad == BadCaseIxs
    IN  CHOOSE i \in bad : \A j \in bad : i <= j

\* C9: when an attribute spelled as a case declaration does not parse, the
\* expansion is an error alone, with no module and no function; after a
\* primary case that parses it is the error "invalid test_case" of the
\* first such attribute.
C9_InvalidCaseAborts ==
    (output.kind # "none" /\ BadCaseIxs # {}) =>
        /\ output.kind = "error"
        /\ output.items = <<>>
        /\ TestCaseParse(args, <<"case", 0>>).ok =>
            /\ output.msg = "invalid test_case"
            /\ output.span = <<"attr", FirstBadCaseIx>>

\* C9 witness: a case declaration that parses, then two that do not
C9_Witness ==
    /\ output.kind = "error"
    /\ output.msg = "invalid test_case"
    /\ Cardinality(BadCaseIxs) = 2
    /\ \E i \in CaseIxs \ BadCaseIxs : i < FirstBadCaseIx

(***************************************************************************)
(* The sanitizers (SpecSlug).                                              *)
(***************************************************************************)
\* a name of ASCII letters, digits, ' ' and '_' that is not empty and does
\* not begin with a digit
SimpleName(n) ==
    /\ n # <<>>
    /\ n[1] \notin AsciiDigits
    /\ \A i \in DOMAIN n :
        n[i] \in AsciiUpper \cup AsciiLower \cup AsciiDigits \cup {" ", "_"}

\* C6 as stated: for every display name (that is not empty) the generated
\* function is named slugify_path(name).
C6_NamedBySanitize ==
    (resolved.kind # "none" /\ slug.st = "ok" /\ name # <<>>) =>
        resolved.kind = "fn" /\ resolved.ident = slug.id

\* C6 as amended: the generated function is named slugify_path(name) when
\* the name is not empty, holds only ASCII letters, digits, ' ' and '_' and
\* does not begin with a digit; for every other name no function of that
\* name is generated (Ident::new panics, or the name differs).
C6_NamedBySanitizeOfSimpleNames ==
    (resolved.kind # "none" /\ slug.st = "ok") =>
        (SimpleName(name) <=> (resolved.kind = "fn" /\ resolved.ident = slug.id))

\* C6 witness: a name with an upper case letter and a space, resolved
C6_Witness ==
    /\ name = <<"B", " ", "a">>
    /\ resolved.kind = "fn"
    /\ slug.st = "ok"
    /\ resolved.ident = <<"b", "_", "a">>

\* C7: a result of slugify_path does not begin with a digit, is not empty
\* unless the text is, holds only lower case ASCII letters, ASCII digits and
\* '_', and is left as it is by slugify_path.
C7_SlugifyPath ==
    /\ slug.st = "ok" =>
        /\ slug.id # <<>> => slug.id[1] \notin AsciiDigits
        /\ name # <<>> => slug.id # <<>>
        /\ \A i \in DOMAIN slug.id :
            slug.id[i] \in AsciiLower \cup AsciiDigits \cup {"_"}
    /\ reslug.st = "ok" => reslug.id = slug.id

\* C7 witness: a text that begins with a digit and holds an upper case
\* letter and a character that is replaced, sanitized twice
C7_Witness ==
    /\ name = <<"7", "B", "-">>
    /\ slug.id = <<"_", "7", "b", "_">>
    /\ reslug.st = "ok"

(***************************************************************************)
(* dir_cases.rs                                                            *)
(***************************************************************************)
\* LitStr::parse
LitStrTokens == {"str"}

\* <DirCases as Parse>::parse run to the end of the tokens by
\* parse_macro_input!: one or more string literals separated by ','
DirCasesParse(toks) ==
    LET a == parse_separated_nonempty(toks, LitStrTokens)
    IN  IF a.ok /\ a.next = Len(toks) + 1
        THEN [ok |-> TRUE, dirs |-> [i \in 1..Len(a.args) |-> a.args[i].v]]
        ELSE [ok |-> FALSE, dirs |-> <<>>]

\* std::env::current_dir()
Root == <<"/", "r">>

\* mutant: the name of the file alone
join_leaf_only(dir, fname) == fname

\* format!("{}/{}", dir, fname)
join(dir, fname) == dir \o <<"/">> \o fname

\* mutant: whatever is not unreadable counts as a file
is_file_or_dir(entry) == entry.kind \in {"file", "dir"}

\* entry.path().is_file()
is_file(entry) == entry.kind = "file"

\* the loop of get_cases over the entries read_dir yields: an entry that
\* cannot be read ends it with the error, a file adds its case
RECURSIVE get_cases_from(_, _, _, _)
get_cases_from(dir, entries, i, cases) ==
    IF i > Len(entries)
    THEN [ok |-> TRUE, cases |-> cases]
    ELSE IF entries[i].kind = "err"
    THEN [ok |-> FALSE, cases |-> <<>>]
    ELSE IF is_file(entries[i])
    THEN LET fname == entries[i].name
         IN  get_cases_from(dir, entries, i + 1,
                 Append(cases, <<join(dir, fname),
                                 join(join(Root, dir), fname),
                                 slugify_path(join(dir, fname))>>))
    ELSE get_cases_from(dir, entries, i + 1, cases)

\* get_cases(dir): read_dir fails for a directory that is not there
get_cases(dir) ==
    IF dir \notin DOMAIN fs
    THEN [ok |-> FALSE, cases |-> <<>>]
    ELSE get_cases_from(dir, fs[dir], 1, <<>>)

\* mutant: only the number of parameters is looked at
has_correct_args_len_only(fn) == Len(fn.inputs) = 2

has_correct_args(fn) ==
    /\ Len(fn.inputs) = 2
    /\ \A i \in DOMAIN fn.inputs :
        fn.inputs[i].kind = "typed" /\ fn.inputs[i].ty = "&str"

\* mutant: a directory that fails is passed over
RECURSIVE load_cases_keep_going(_, _, _, _)
load_cases_keep_going(dirs, i, case_details, calls) ==
    IF i > Len(dirs)
    THEN [ok |-> TRUE, details |-> case_details, calls |-> calls]
    ELSE LET r == get_cases(dirs[i])
             made == Append(calls, [dir |-> dirs[i], ok |-> r.ok, cases |-> r.cases])
         IN  load_cases_keep_going(dirs, i + 1, case_details \o r.cases, made)

\* the loop of inner over the directories: the calls of get_cases made,
\* and the details of all the directories unless one of them fails
RECURSIVE load_cases(_, _, _, _)
load_cases(dirs, i, case_details, calls) ==
    IF i > Len(dirs)
    THEN [ok |-> TRUE, details |-> case_details, calls |-> calls]
    ELSE LET r == get_cases(dirs[i])
             made == Append(calls, [dir |-> dirs[i], ok |-> r.ok, cases |-> r.cases])
         IN  IF r.ok
             THEN load_cases(dirs, i + 1, case_details \o r.cases, made)
             ELSE [ok |-> FALSE, details |-> <<>>, calls |-> made]

\* #[simple_test_case::test_case(#path, include_str!(#abs_path); #case)]
case_attr(detail) ==
    Attr("simple_test_case::test_case",
         <<Str(detail[1]), Comma, Lit(<<"include_str!">> \o detail[2]), Semi,
           Str(detail[3])>>)

CasesOut(id, attrs) ==
    [kind |-> "cases", ident |-> id, items |-> attrs, msg |-> "", span |-> NoSpan]

\* inner(args, input), the dir_cases macro: what it returns, and the calls
\* of get_cases it made
dir_cases_inner(toks, fn) ==
    LET dc == DirCasesParse(toks)
    IN  IF ~dc.ok
        THEN [out |-> ErrorOut(ErrorItem("parse error", <<"dirs", 0>>)), calls |-> <<>>]
        ELSE IF ~has_correct_args(fn)
        THEN [out |-> ErrorOut(ErrorItem(
                  "dir_cases test functions must accept (path: &str, contents: &str) as arguments",
                  <<"dirs", 0>>)),
              calls |-> <<>>]
        ELSE LET l == load_cases(dc.dirs, 1, <<>>, <<>>)
             IN  IF ~l.ok
                 THEN [out |-> ErrorOut(ErrorItem("Error loading test cases", <<"dirs", 0>>)),
                       calls |-> l.calls]
                 ELSE [out |-> CasesOut(fn.ident,
                                  [i \in 1..Len(l.details) |-> case_attr(l.details[i])]),
                       calls |-> l.calls]

(***************************************************************************)
(* SpecDirCases: dir_cases over a file system of the directories "d", its  *)
(* subdirectory "d/s", "e" and "7"; "n" is a directory that is not there.  *)
(***************************************************************************)
DirD == <<"d">>

DirDS == <<"d", "/", "s">>

DirE == <<"e">>

DirN == <<"n">>

Dir7 == <<"7">>

File(n) == [name |-> n, kind |-> "file"]

SubDir(n) == [name |-> n, kind |-> "dir"]

\* an entry whose DirEntry cannot be read
Unreadable == [name |-> <<>>, kind |-> "err"]

EntryChoices == {File(<<"a">>), File(<<"B", ".", "t">>), SubDir(<<"s">>), Unreadable}

\* the listings read_dir can yield: entries of different names, in any order
Listings ==
    {l \in SeqsUpTo(EntryChoices, MaxEntries) :
        \A i, j \in DOMAIN l : i # j => l[i] # l[j]}

ListingsE == {<<>>, <<File(<<"a">>)>>, <<File(<<"z">>), Unreadable>>}

DirArgChoices ==
    {<<Str(DirD)>>, <<Str(DirE), Comma, Str(DirD)>>, <<Str(DirD), Comma, Str(DirDS)>>,
     <<Str(DirD), Comma, Str(DirN), Comma, Str(DirE)>>, <<Str(DirD), Comma>>, <<>>,
     <<Str(Dir7), Comma, Str(DirD)>>}

DirParamChoices ==
    {Typed("path", "&str", <<>>), Typed("x", "&str", <<"cfg">>),
     Typed("n", "usize", <<>>), Receiver}

InitDirCases ==
    /\ fs \in {[p \in {DirD, DirDS, DirE, Dir7} |->
                    IF p = DirD THEN l
                    ELSE IF p = DirDS THEN <<File(<<"a">>), File(<<"c">>)>>
                    ELSE IF p = Dir7 THEN <<File(<<"U+00E9">>)>>
                    ELSE e] : l \in Listings, e \in ListingsE}
    /\ args \in DirArgChoices
    /\ original \in {[ident |-> <<"f">>, attrs |-> <<Attr("test", <<>>)>>,
                      inputs |-> p, stmts |-> Body] :
                        p \in SeqsUpTo(DirParamChoices, MaxDirParams)}
    /\ output = NoOutput
    /\ reads = <<>>
    /\ expanded = NoOutput
    /\ name = <<>>
    /\ slug = NotRun
    /\ reslug = NotRun
    /\ resolved = NotResolved

\* #[dir_cases(args)] on original
ExpandDirCases ==
    /\ output = NoOutput
    /\ output' = dir_cases_inner(args, original).out
    /\ reads' = dir_cases_inner(args, original).calls
    /\ UNCHANGED <<name, slug, reslug, resolved, original, args, fs, expanded>>

\* the compiler expands the first attribute dir_cases emitted:
\* #[simple_test_case::test_case(..)] on the function under the case
\* declarations left and its own attributes
ExpandEmitted ==
    /\ output.kind = "cases"
    /\ output.items # <<>>
    /\ expanded = NoOutput
    /\ expanded' = inner(Head(output.items).tokens,
                         [original EXCEPT !.attrs = Tail(output.items) \o @])
    /\ UNCHANGED <<name, slug, reslug, resolved, original, args, output, fs, reads>>

NextDirCases == ExpandDirCases \/ ExpandEmitted

SpecDirCases == InitDirCases /\ [][NextDirCases]_vars

\* the files directly in a directory, and whether all of it can be read
FilesIn(dir) == {j \in DOMAIN fs[dir] : fs[dir][j].kind = "file"}

SubDirsIn(dir) == {j \in DOMAIN fs[dir] : fs[dir][j].kind = "dir"}

Readable(dir) ==
    dir \in DOMAIN fs /\ \A j \in DOMAIN fs[dir] : fs[dir][j].kind # "err"

\* C10: the enumeration of a directory of N regular files and M
\* subdirectories yields exactly N entries, one for each file directly in
\* the directory, and none for a subdirectory or a file inside one.
C10_OneEntryPerFile ==
    \A i \in DOMAIN reads :
        LET r == reads[i]
        IN  Readable(r.dir) =>
                /\ r.ok
                /\ Len(r.cases) = Cardinality(FilesIn(r.dir))
                /\ {r.cases[k][1] : k \in DOMAIN r.cases}
                     = {join(r.dir, fs[r.dir][j].name) : j \in FilesIn(r.dir)}
                /\ \A k \in DOMAIN r.cases, j \in SubDirsIn(r.dir) :
                    LET sub == join(r.dir, fs[r.dir][j].name)
                    IN  /\ r.cases[k][1] # sub
                        /\ sub \in DOMAIN fs =>
                            \A f \in DOMAIN fs[sub] :
                                r.cases[k][1] # join(sub, fs[sub][f].name)

\* C10 witness: "d" with two files and the subdirectory "s", which has files
\* of its own, enumerated into two entries
C10_Witness ==
    /\ output.kind = "cases"
    /\ \E i \in DOMAIN reads :
        /\ reads[i].dir = DirD
        /\ Cardinality(FilesIn(DirD)) = 2
        /\ Cardinality(SubDirsIn(DirD)) = 1
        /\ fs[DirDS] # <<>>
        /\ Len(reads[i].cases) = 2

\* the directories configured, as written in the arguments, and the paths
\* of the regular files in them, directory by directory in listing order
ConfiguredDirs ==
    LET strs == SelectSeq(args, LAMBDA t : t.t = "str")
    IN  [i \in DOMAIN strs |-> strs[i].v]

RECURSIVE FilePathsOf(_)
FilePathsOf(ds) ==
    IF ds = <<>> THEN <<>>
    ELSE LET d == Head(ds)
             files == SelectSeq(fs[d], LAMBDA e : e.kind = "file")
         IN  [i \in DOMAIN files |-> d \o <<"/">> \o files[i].name]
                 \o FilePathsOf(Tail(ds))

\* C11: for every configured directory d and regular file f in it, dir_cases
\* emits a case declaration whose first argument is the string d/f and whose
\* name is slugify_path(d/f); test_case applied to the declarations
\* generates, for each, a function of exactly that name which binds its
\* first parameter to d/f (the parameters carrying no attributes, which
\* test_case does not support).
C11_FullPathNames ==
    output.kind = "cases" =>
        LET ps == FilePathsOf(ConfiguredDirs)
        IN  /\ Len(output.items) = Len(ps)
            /\ \A k \in DOMAIN ps :
                /\ output.items[k].tokens[1] = Str(ps[k])
                /\ output.items[k].tokens[5] = Str(slugify_path(ps[k]))
            /\ (expanded # NoOutput /\ PlainParams) =>
                /\ expanded.kind = "module"
                /\ Len(expanded.items) = Len(ps)
                /\ \A k \in DOMAIN ps :
                    /\ expanded.items[k].kind = "fn"
                    /\ expanded.items[k].ident = slugify_path(ps[k])
                    /\ expanded.items[k].stmts[1].val = Str(ps[k])

\* C11 witness: the files "7/U+00E9" and "d/B.t" become the functions _7__
\* and d_b_t
C11_Witness ==
    /\ output.kind = "cases"
    /\ expanded.kind = "module"
    /\ \E k \in DOMAIN expanded.items :
        /\ expanded.items[k].ident = <<"_", "7", "_", "_">>
        /\ expanded.items[k].stmts[1].val = Str(<<"7", "/", "U+00E9">>)
    /\ \E k \in DOMAIN expanded.items :
        /\ expanded.items[k].ident = <<"d", "_", "b", "_", "t">>
        /\ output.items[k].tokens[5] = Str(<<"d", "_", "b", "_", "t">>)

\* C12: once the enumeration has begun, if a configured directory is
\* missing or has an entry that cannot be read, or a call of get_cases
\* failed, the output is the one error "Error loading test cases" and holds
\* no case declaration, and none is handed on to test_case.
C12_NoPartialCases ==
    (reads # <<>>
        /\ \/ \E i \in DOMAIN ConfiguredDirs : ~Readable(ConfiguredDirs[i])
           \/ \E i \in DOMAIN reads : ~reads[i].ok) =>
            /\ output.kind = "error"
            /\ output.msg = "Error loading test cases"
            /\ output.items = <<>>
            /\ expanded = NoOutput

\* C12 witness: "e" is enumerated into a case, then "d" fails at an entry
\* that cannot be read after a file of it was read
C12_Witness ==
    /\ output.kind = "error"
    /\ Len(reads) = 2
    /\ reads[1].ok /\ reads[1].cases # <<>>
    /\ ~reads[2].ok
    /\ reads[2].dir = DirD
    /\ Len(fs[DirD]) >= 2
    /\ fs[DirD][1].kind = "file"
    /\ fs[DirD][2].kind = "err"

\* the error of the signature check
SignatureError ==
    /\ output.kind = "error"
    /\ output.msg =
        "dir_cases test functions must accept (path: &str, contents: &str) as arguments"

\* the arguments are one or more string literals with ',' between them
DirArgsWellFormed ==
    /\ Len(args) % 2 = 1
    /\ \A i \in DOMAIN args : args[i].t = (IF i % 2 = 1 THEN "str" ELSE ",")

\* exactly two parameters, both typed and of the declared type &str
TwoStrParams ==
    /\ Len(original.inputs) = 2
    /\ \A i \in {1, 2} :
        original.inputs[i].kind = "typed" /\ original.inputs[i].ty = "&str"

\* C13: with arguments that parse, the expansion is the signature error
\* exactly when the function does not have two typed parameters of type
\* &str, whatever their patterns; the signature error is the whole output,
\* and no call of get_cases was made when it is returned.
C13_SignatureGate ==
    (output # NoOutput /\ DirArgsWellFormed) =>
        /\ SignatureError <=> ~TwoStrParams
        /\ SignatureError =>
            /\ reads = <<>>
            /\ output.items = <<>>
            /\ expanded = NoOutput

\* C13 witness: two parameters of which the second is no &str, over a
\* directory that has files to enumerate
C13_Witness ==
    /\ SignatureError
    /\ Len(original.inputs) = 2
    /\ original.inputs[1].ty = "&str"
    /\ original.inputs[2].ty = "usize"
    /\ ConfiguredDirs # <<>>
    /\ Readable(ConfiguredDirs[1])
    /\ FilesIn(ConfiguredDirs[1]) # {}
    /\ reads = <<>>

(***************************************************************************)
(* SpecCaseTokens: test_case with every sequence of at most MaxTokens      *)
(* tokens as its arguments, on a function of no or one parameter.          *)
(***************************************************************************)
TokenChoices == {Lit(<<"1">>), Str(<<"n">>), Comma, Semi}

\* a case declaration with no argument before the ';'
NoArgs(n) == <<Semi, Str(n)>>

CaseTokensAttrs ==
    SeqsUpTo({Attr("test_case", OneArg(<<"b">>)), Attr("test_case", NoArgs(<<"e">>)),
              Attr("test", <<>>)}, 1)

InitCaseTokens ==
    /\ args \in SeqsUpTo(TokenChoices, MaxTokens)
    /\ original \in {[ident |-> <<"f">>, attrs |-> a, inputs |-> p, stmts |-> Body] :
                        a \in CaseTokensAttrs,
                        p \in {<<>>, <<Typed("a", "usize", <<>>)>>}}
    /\ output = NoOutput
    /\ name = <<>>
    /\ slug = NotRun
    /\ reslug = NotRun
    /\ resolved = NotResolved
    /\ fs = <<>>
    /\ reads = <<>>
    /\ expanded = NoOutput

SpecCaseTokens == InitCaseTokens /\ [][NextTestCase]_vars

\* C14: a case declaration that parses begins with an argument expression
\* and has at least one argument; on a function of no parameters the
\* expansion generates no function, and every item of an emitted module is
\* the error "wrong number of arguments".
C14_NoTestOfZeroParams ==
    /\ \A k \in DOMAIN DeclaredCases :
        DeclaredCases[k].ok => Len(DeclaredCases[k].args) >= 1
    /\ (output # NoOutput /\ TestCaseParse(args, <<"case", 0>>).ok) =>
        /\ args[1].t \in ExprTokens
        /\ output.kind \in {"module", "error"}
    /\ (output # NoOutput /\ original.inputs = <<>>) =>
        /\ FnsOut = 0
        /\ output.kind = "module" =>
            /\ Len(output.items) = NumCases
            /\ \A k \in DOMAIN output.items :
                /\ output.items[k].kind = "error"
                /\ output.items[k].msg = "wrong number of arguments"

\* C14 witness: two case declarations that parse, of two arguments and of
\* one, on a function of no parameters, both answered by the error
C14_Witness ==
    /\ output.kind = "module"
    /\ original.inputs = <<>>
    /\ Len(output.items) = 2
    /\ Len(DeclaredCases[1].args) = 2
    /\ Len(DeclaredCases[2].args) = 1
    /\ \A k \in {1, 2} : output.items[k].msg = "wrong number of arguments"

====
